---- MODULE Spec2Model ----
(***************************************************************************)
(* Facebook Ads Archive crawler: the request handler (routes.js, in its    *)
(* Playwright and Cheerio revisions), the crawler options of main.js       *)
(* (retries, handler timeout, failedRequestHandler) and the dataset.       *)
(*                                                                         *)
(* Strings are sequences of tokens. A token stands for the substring the   *)
(* code tests for ("fbcdn", "60x60", "\\", "id=", ...); every value of a   *)
(* record is such a sequence, with Null and Undef as reserved sequences.   *)
(***************************************************************************)
EXTENDS Integers, Sequences, FiniteSets, TLC

\* ------------------------------------------------------------------ bounds
MaxElems == 2          \* elements of a page, in document order
MaxPayloads == 2       \* inline "key":"value" payloads of a page, in source order
MaxRetriesInput == 1   \* largest maxRetries an input gives
MaxClock == 1          \* ticks of the wall clock during a run
MaxFaults == 2         \* faults the environment raises during a run
MaxConcurrencyInput == 1  \* largest maxConcurrency an input gives
MaxStartUrls == 2      \* longest startUrls array an input gives

\* ------------------------------------------------------------- JS values
Null == <<"#null">>
Undef == <<"#undefined">>
JsTrue == <<"#true">>
JsFalse == <<"#false">>
Str(t) == <<t>>

\* JavaScript truthiness of a string, null or undefined (the `!x`, `x || y` tests).
Falsy(v) == v = <<>> \/ v = Null \/ v = Undef \/ v = JsFalse
Truthy(v) == ~Falsy(v)
Or(a, b) == IF Truthy(a) THEN a ELSE b

\* Tokens in which a searched substring occurs.
TokensWith(sub) ==
    CASE sub = "fbcdn" -> {"fbcdn"}
      [] sub = "60x60" -> {"60x60"}
      [] sub = "facebook.com" -> {"facebook.com", "l.facebook.com/l.php"}
      [] sub = "facebook" -> {"facebook.com", "l.facebook.com/l.php"}
      [] sub = "l.facebook.com/l.php" -> {"l.facebook.com/l.php"}
      [] sub = "http" -> {"http", "https"}
      [] sub = "id=" -> {"id=", "video_id="}
      [] OTHER -> {sub}

\* String.prototype.includes
Includes(s, sub) == \E i \in 1..Len(s) : s[i] \in TokensWith(sub)

\* the [attr^="http"] selector test / String.prototype.startsWith
StartsWith(s, sub) == Len(s) > 0 /\ s[1] \in TokensWith(sub)

IsBackslash(t) == t = "\\"
NotBackslash(t) == ~IsBackslash(t)
\* The replacement without the g flag: the first backslash only.
UnescapeFirst(s) ==
    LET hits == {i \in 1..Len(s) : IsBackslash(s[i])}
    IN IF hits = {} THEN s
       ELSE LET i == CHOOSE x \in hits : \A y \in hits : x <= y
            IN SubSeq(s, 1, i - 1) \o SubSeq(s, i + 1, Len(s))

\* str.replace(/\\/g, '')
Unescape(s) == SelectSeq(s, NotBackslash)

\* new URL(s): succeeds on an absolute URL, throws otherwise.
UrlParses(s) ==
    /\ Len(s) >= 2
    /\ s[1] \in {"http", "https"}
    /\ \/ s[2] = "://"
       \/ Len(s) >= 4 /\ s[2] = ":" /\ s[3] = "/" /\ s[4] = "/"

\* decodeURIComponent on one token
DecodeToken(t) ==
    CASE t = "%3A%2F%2F" -> "://"
      [] t = "%2F" -> "/"
      [] OTHER -> t

RECURSIVE ParamEnd(_, _)
\* index of the last token of the parameter value that starts at i
ParamEnd(s, i) ==
    IF i > Len(s) \/ s[i] = "&" THEN i - 1 ELSE ParamEnd(s, i + 1)

\* urlObj.searchParams.get(name): the decoded value of the first parameter
\* called name, null when there is none.
SearchParam(s, name) ==
    LET q == {i \in 1..Len(s) : s[i] = "?"}
        starts == {i \in 2..Len(s) : /\ s[i] = name
                                     /\ s[i - 1] \in {"?", "&"}
                                     /\ \E j \in q : j < i}
    IN IF starts = {} THEN Null
       ELSE LET i == CHOOSE x \in starts : \A y \in starts : x <= y
                e == ParamEnd(s, i + 1)
            IN [k \in 1..(e - i) |-> DecodeToken(s[i + k])]

\* ------------------------------------------------------------ the document
\* A page is a sequence of elements in document order, the inline payloads of
\* its source text in source order, and its text content. An element's URL
\* attributes end with the element's position, so that two elements of one
\* kind have different URLs.
NoAttrs == [tag |-> "none", src |-> Undef, poster |-> Undef, href |-> Undef,
            lynx |-> FALSE, box |-> FALSE, source |-> Undef, currentSrc |-> Undef]

VideoElems ==
    { [NoAttrs EXCEPT !.tag = "video", !.src = <<"https", "://", "fbcdn", "/", "v">>],
      [NoAttrs EXCEPT !.tag = "video", !.src = <<"https", "://", "other", "/", "v">>,
                      !.poster = <<"https", "://", "fbcdn", "/", "p">>],
      [NoAttrs EXCEPT !.tag = "video",
                      !.poster = <<"https", "://", "fbcdn", "/", "60x60", "/", "p">>] }

ImgElems ==
    { [NoAttrs EXCEPT !.tag = "img", !.lynx = TRUE,
                      !.src = <<"https", "://", "fbcdn", "/", "i">>],
      [NoAttrs EXCEPT !.tag = "img", !.lynx = TRUE,
                      !.src = <<"https", "://", "fbcdn", "/", "60x60", "/", "i">>],
      [NoAttrs EXCEPT !.tag = "img", !.box = TRUE,
                      !.src = <<"https", "://", "fbcdn", "/", "i">>],
      [NoAttrs EXCEPT !.tag = "img", !.box = TRUE,
                      !.src = <<"https", "://", "other", "/", "i">>],
      [NoAttrs EXCEPT !.tag = "img", !.src = <<"https", "://", "fbcdn", "/", "i">>],
      [NoAttrs EXCEPT !.tag = "img",
                      !.src = <<"https", "://", "fbcdn", "/", "60x60", "/", "i">>] }

AnchorElems ==
    { [NoAttrs EXCEPT !.tag = "a",
         !.href = <<"https", "://", "l.facebook.com/l.php", "?", "u=",
                    "https", "%3A%2F%2F", "shop", "%2F">>],
      [NoAttrs EXCEPT !.tag = "a",
         !.href = <<"https", "://", "l.facebook.com/l.php", "?", "h=">>],
      [NoAttrs EXCEPT !.tag = "a",
         !.href = <<"//", "l.facebook.com/l.php", "?", "u=",
                    "https", "%3A%2F%2F", "shop", "%2F">>],
      [NoAttrs EXCEPT !.tag = "a",
         !.href = <<"https", "://", "www.", "shop", ".com", "/">>],
      [NoAttrs EXCEPT !.tag = "a",
         !.href = <<"https", "://", "www.", "facebook.com", "/", "page">>] }

CreativePayloads ==
    { [key |-> "resized_image_url",
       val |-> <<"https", ":", "\\", "/", "\\", "/", "fbcdn", "\\", "/", "imgA">>],
      [key |-> "resized_image_url",
       val |-> <<"https", "://", "fbcdn", "/", "60x60", "/", "imgT">>],
      [key |-> "video_hd_url",
       val |-> <<"https", ":", "\\", "/", "\\", "/", "fbcdn", "\\", "/", "vidA">>],
      [key |-> "video_hd_url",
       val |-> <<"https", "://", "fbcdn", "/", "vidB">>] }

CtaPayloads ==
    { [key |-> "link_url",
       val |-> <<"https", ":", "\\", "/", "\\", "/", "shop", ".com", "\\", "/", "A">>],
      [key |-> "link_url", val |-> <<"https", "://", "www.", "shop", ".com", "/", "B">>],
      [key |-> "link_url", val |-> <<"\\">>],
      [key |-> "link_url", val |-> <<"https", "://", "m.", "www.", "shop", ".com", "/", "C">>],
      [key |-> "link_url", val |-> <<"shop", ".com", "/", "D">>] }

NoText == [advSpan |-> <<>>, imgAlt |-> Undef, libText |-> <<>>, sponsored |-> FALSE,
           adTexts |-> <<>>, ctaButton |-> <<>>]
FullText == [advSpan |-> <<" ", "Planville GmbH", " ">>, imgAlt |-> <<"Logo">>,
             libText |-> <<"Library ID:", " ", "1694">>, sponsored |-> TRUE,
             adTexts |-> << <<"w10">>, <<" ", "w25", " ">> >>,
             ctaButton |-> <<" ", "Learn More", " ">>]
AltText == [NoText EXCEPT !.imgAlt = <<"Logo">>, !.libText = <<"Library ID:", "none">>]
Texts == {NoText, FullText, AltText}

SeqsUpTo(S, n) == UNION {[1..k -> S] : k \in 0..n}

\* Pages that vary the creative part, pages that vary the CTA part, and a few
\* pages that mix both.
CreativeDocs ==
    [elems : SeqsUpTo(VideoElems \cup ImgElems, MaxElems),
     raw : SeqsUpTo(CreativePayloads, MaxPayloads), text : {NoText}]
CtaDocs ==
    [elems : SeqsUpTo(AnchorElems, MaxElems),
     raw : SeqsUpTo(CtaPayloads, MaxPayloads), text : {FullText}]
\* Videos whose URL is not in the src attribute on the asset host: on the
\* facebook host, in a <source> child, resolved by the browser only (currentSrc),
\* and a <source> child on another host beside a poster.
LazyVideoElems ==
    { [NoAttrs EXCEPT !.tag = "video", !.src = <<"https", "://", "facebook.com", "/", "v">>],
      [NoAttrs EXCEPT !.tag = "video", !.source = <<"https", "://", "fbcdn", "/", "s">>],
      [NoAttrs EXCEPT !.tag = "video", !.currentSrc = <<"https", "://", "fbcdn", "/", "c">>],
      [NoAttrs EXCEPT !.tag = "video", !.source = <<"https", "://", "other", "/", "s">>,
                      !.poster = <<"https", "://", "fbcdn", "/", "p">>] }
\* payloads whose value is made of backslashes only
EmptyPayloads ==
    { [key |-> "resized_image_url", val |-> <<"\\">>],
      [key |-> "video_hd_url", val |-> <<"\\", "\\">>] }
\* Pages that vary the videos and the payloads without value.
VideoDocs ==
    [elems : SeqsUpTo(VideoElems \cup LazyVideoElems, MaxElems),
     raw : SeqsUpTo(EmptyPayloads, MaxPayloads), text : {NoText}]

\* the texts of ad-copy candidate elements: 10, 20, 21 and 25 characters, the
\* last with surrounding white space, and 19 characters between two spaces
AdTextCandidates ==
    { <<"w10">>, <<"w20">>, <<"w20", "!">>, <<" ", "w25", " ">>, <<" ", "w19", " ">> }
\* Pages that vary the ad-copy candidates.
AdTextDocs ==
    [elems : {<<>>}, raw : {<<>>},
     text : {[FullText EXCEPT !.adTexts = c] : c \in SeqsUpTo(AdTextCandidates, MaxElems)}]
EmptyDoc == [elems |-> <<>>, raw |-> <<>>, text |-> NoText]
SampleDocs ==
    { [elems |-> <<>>, raw |-> <<>>, text |-> t] : t \in Texts } \cup
    { [elems |-> <<v, a>>, raw |-> <<>>, text |-> FullText] :
         v \in VideoElems, a \in AnchorElems }
AllDocs == CreativeDocs \cup CtaDocs \cup AdTextDocs \cup SampleDocs

Elem(doc, i) == doc.elems[i]
\* $(el).attr(name): undefined when the element has no such attribute
Attr(doc, i, name) ==
    IF Elem(doc, i)[name] = Undef THEN Undef
    ELSE Elem(doc, i)[name] \o <<ToString(i)>>

\* $(selector): the positions of the matching elements
Select(doc, tag) == {i \in 1..Len(doc.elems) : Elem(doc, i).tag = tag}
\* .first().attr(name): undefined on an empty selection
FirstAttr(doc, sel, name) ==
    IF sel = {} THEN Undef
    ELSE Attr(doc, CHOOSE i \in sel : \A j \in sel : i <= j, name)

\* bodyHtml.match(/"key":"([^"]+)"/g): the matches in source order
RawMatches(doc, key) ==
    LET idx == {j \in 1..Len(doc.raw) : doc.raw[j].key = key}
        F[j \in 0..Len(doc.raw)] ==
            IF j = 0 THEN <<>>
            ELSE IF j \in idx THEN Append(F[j - 1], doc.raw[j].val) ELSE F[j - 1]
    IN F[Len(doc.raw)]

\* --------------------------------------------------------- text helpers
IsSpace(t) == t = " "
RECURSIVE TrimStart(_)
TrimStart(s) == IF s /= <<>> /\ IsSpace(Head(s)) THEN TrimStart(Tail(s)) ELSE s
RECURSIVE TrimEnd(_)
TrimEnd(s) ==
    IF s /= <<>> /\ IsSpace(s[Len(s)]) THEN TrimEnd(SubSeq(s, 1, Len(s) - 1)) ELSE s
\* String.prototype.trim
Trim(s) == TrimEnd(TrimStart(s))

Digits == {"2500", "1694", "77", "1", "2", "3", "4"}
IsDigits(t) == t \in Digits

\* number of characters a token stands for
CharLen(t) ==
    CASE t = "w10" -> 10
      [] t = "w19" -> 19
      [] t = "w20" -> 20
      [] t = "w25" -> 25
      [] OTHER -> 1
RECURSIVE StrLen(_)
\* String.prototype.length
StrLen(s) == IF s = <<>> THEN 0 ELSE CharLen(Head(s)) + StrLen(Tail(s))

\* libraryIdText.match(/Library ID:\s*(\d+)/): the digits of the first match, or null
LibraryIdMatch(s) ==
    LET hits == {i \in 1..Len(s) :
                   /\ s[i] = "Library ID:"
                   /\ \E j \in (i + 1)..Len(s) :
                        /\ IsDigits(s[j])
                        /\ \A k \in (i + 1)..(j - 1) : IsSpace(s[k])}
    IN IF hits = {} THEN Null
       ELSE LET i == CHOOSE x \in hits : \A y \in hits : x <= y
                j == CHOOSE y \in (i + 1)..Len(s) :
                       IsDigits(s[y]) /\ \A k \in (i + 1)..(y - 1) : IsSpace(s[k])
            IN Str(s[j])

\* The match without the [?&] before id=, as failedRequestHandler has it.
AdIdMatchLoose(url) ==
    LET hits == {i \in 1..(Len(url) - 1) :
                   url[i] \in TokensWith("id=") /\ IsDigits(url[i + 1])}
    IN IF hits = {} THEN Null
       ELSE Str(url[(CHOOSE x \in hits : \A y \in hits : x <= y) + 1])

\* request.url.match(/[?&]id=(\d+)/) in the request handler
AdIdMatch(url) ==
    LET hits == {i \in 1..(Len(url) - 2) :
                   url[i] \in {"?", "&"} /\ url[i + 1] = "id=" /\ IsDigits(url[i + 2])}
    IN IF hits = {} THEN Null
       ELSE Str(url[(CHOOSE x \in hits : \A y \in hits : x <= y) + 2])

\* request.url.match(/id=(\d+)/)?.[1] in failedRequestHandler: any "id="
\* followed by digits, also at the end of a longer parameter name
FailedAdIdMatch(url) ==
    LET hits == {i \in 1..(Len(url) - 1) :
                   url[i] \in TokensWith("id=") /\ IsDigits(url[i + 1])}
    IN IF hits = {} THEN Undef
       ELSE Str(url[(CHOOSE x \in hits : \A y \in hits : x <= y) + 1])

\* urlObj.hostname: the tokens between the scheme and the path
Hostname(s) ==
    LET start == IF s[2] = "://" THEN 3 ELSE 5
        stops == {i \in start..Len(s) : s[i] \in {"/", "?", "#"}}
        end == IF stops = {} THEN Len(s)
               ELSE (CHOOSE x \in stops : \A y \in stops : x <= y) - 1
    IN SubSeq(s, start, end)

\* str.replace('www.', ''): removes the first occurrence only, wherever it is
ReplaceFirstWww(s) ==
    LET hits == {i \in 1..Len(s) : s[i] = "www."}
    IN IF hits = {} THEN s
       ELSE LET i == CHOOSE x \in hits : \A y \in hits : x <= y
            IN SubSeq(s, 1, i - 1) \o SubSeq(s, i + 1, Len(s))

\* ------------------------------------------------------------ the record
\* The keys a record can have. retryCount is the request's property of that
\* name; no record literal of the source sets it.
Keys == {"ad_archive_url", "crawled_at", "ad_id", "advertiser_name", "library_id",
         "is_sponsored", "ad_text", "creative_url", "ad_type", "cta_url", "cta_text",
         "cta_domain", "status", "error", "error_stack",
         "url", "timestamp", "retryCount"}
EmptyRecord == [k \in Keys |-> Undef]

Revisions == {"playwright", "cheerio"}
\* with the Playwright revision that waits for lazily loaded videos
AllRevisions == Revisions \cup {"playwright_video"}

\* new Date().toISOString()
IsoString(t) == <<"T", ToString(t)>>

\* const result = { ad_archive_url: request.url, crawled_at: new Date().toISOString() }
NewResult(url, t) ==
    [EmptyRecord EXCEPT !.ad_archive_url = url, !.crawled_at = IsoString(t)]

\* ----------------------------------------------- creative URL patterns
\* Pattern 0a: video src
Pattern0a(r, doc) ==
    LET videoSrc == FirstAttr(doc, Select(doc, "video"), "src")
    IN IF Truthy(videoSrc) /\ Includes(videoSrc, "fbcdn")
       THEN [r EXCEPT !.creative_url = videoSrc, !.ad_type = Str("video")]
       ELSE r

\* Pattern 0b: img inside a[data-lynx-mode="hover"]
Pattern0b(r, doc) ==
    IF Truthy(r.creative_url) THEN r
    ELSE LET sel == {i \in Select(doc, "img") :
                       Elem(doc, i).lynx /\ Includes(Attr(doc, i, "src"), "fbcdn")}
             adLinkImg == FirstAttr(doc, sel, "src")
         IN IF Truthy(adLinkImg) /\ ~Includes(adLinkImg, "60x60")
            THEN [r EXCEPT !.creative_url = adLinkImg, !.ad_type = Str("image")]
            ELSE r

\* Pattern 0c: img inside an ad-content container (data-testid)
Pattern0c(r, doc) ==
    IF Truthy(r.creative_url) THEN r
    ELSE LET sel == {i \in Select(doc, "img") : Elem(doc, i).box}
             adContentImg == FirstAttr(doc, sel, "src")
         IN IF /\ Truthy(adContentImg)
               /\ Includes(adContentImg, "fbcdn")
               /\ ~Includes(adContentImg, "60x60")
            THEN [r EXCEPT !.creative_url = adContentImg, !.ad_type = Str("image")]
            ELSE r

\* Pattern 1: the last "resized_image_url" payload, unescaped. The code runs
\* it whatever the earlier patterns found.
Pattern1(r, doc) ==
    LET imageUrlMatches == RawMatches(doc, "resized_image_url")
    IN IF Len(imageUrlMatches) > 0
       THEN [r EXCEPT !.creative_url = Unescape(imageUrlMatches[Len(imageUrlMatches)]),
                      !.ad_type = Str("image")]
       ELSE r

\* Pattern 2: the last "video_hd_url" payload, unescaped
Pattern2(r, doc) ==
    IF Truthy(r.creative_url) THEN r
    ELSE LET videoUrlMatches == RawMatches(doc, "video_hd_url")
         IN IF Len(videoUrlMatches) > 0
            THEN [r EXCEPT
                    !.creative_url = Unescape(videoUrlMatches[Len(videoUrlMatches)]),
                    !.ad_type = Str("video")]
            ELSE r

\* Pattern 3: $('img[src*="fbcdn"]').not('[src*="60x60"]').first()
Pattern3(r, doc) ==
    IF Truthy(r.creative_url) THEN r
    ELSE LET sel == {i \in Select(doc, "img") :
                       /\ Includes(Attr(doc, i, "src"), "fbcdn")
                       /\ ~Includes(Attr(doc, i, "src"), "60x60")}
             imgSrc == FirstAttr(doc, sel, "src")
         IN IF Truthy(imgSrc)
            THEN [r EXCEPT !.creative_url = imgSrc, !.ad_type = Str("image")]
            ELSE r

\* Pattern 4: video poster
Pattern4(r, doc) ==
    IF Truthy(r.creative_url) THEN r
    ELSE LET videoPoster == FirstAttr(doc, Select(doc, "video"), "poster")
         IN IF Truthy(videoPoster)
            THEN [r EXCEPT !.creative_url = videoPoster,
                           !.ad_type = Str("video_thumbnail")]
            ELSE r

\* Playwright revision with video waits, pattern 1: video src on either host
VideoPattern1(r, doc) ==
    LET videoSrc == FirstAttr(doc, Select(doc, "video"), "src")
    IN IF Truthy(videoSrc) /\ (Includes(videoSrc, "fbcdn") \/ Includes(videoSrc, "facebook"))
       THEN [r EXCEPT !.creative_url = videoSrc, !.ad_type = Str("video")]
       ELSE r

\* pattern 2: $('video source').first().attr('src')
VideoPattern2(r, doc) ==
    IF Truthy(r.creative_url) THEN r
    ELSE LET sel == {i \in Select(doc, "video") : Elem(doc, i).source /= Undef}
             videoSourceSrc == FirstAttr(doc, sel, "source")
         IN IF /\ Truthy(videoSourceSrc)
               /\ (Includes(videoSourceSrc, "fbcdn") \/ Includes(videoSourceSrc, "facebook"))
            THEN [r EXCEPT !.creative_url = videoSourceSrc, !.ad_type = Str("video")]
            ELSE r

\* What page.evaluate returns: the first video's src, else its source's src,
\* else its currentSrc, each only on one of the two hosts; null otherwise.
EvaluateVideoUrl(doc) ==
    LET sel == Select(doc, "video")
        OnHost(v) == Truthy(v) /\ (Includes(v, "fbcdn") \/ Includes(v, "facebook"))
        src == FirstAttr(doc, sel, "src")
        source == FirstAttr(doc, sel, "source")
        currentSrc == FirstAttr(doc, sel, "currentSrc")
    IN IF sel = {} THEN Null
       ELSE IF OnHost(src) THEN src
       ELSE IF OnHost(source) THEN source
       ELSE IF OnHost(currentSrc) THEN currentSrc
       ELSE Null

\* pattern 3: the video URL of the live page
VideoPattern3(r, doc) ==
    IF Truthy(r.creative_url) THEN r
    ELSE LET videoUrl == EvaluateVideoUrl(doc)
         IN IF Truthy(videoUrl)
            THEN [r EXCEPT !.creative_url = videoUrl, !.ad_type = Str("video")]
            ELSE r

\* A last step that resets the URL and leaves the type as it is.
PatternNoneKeepType(r) ==
    IF Truthy(r.creative_url) THEN r
    ELSE [r EXCEPT !.creative_url = Null]

\* no creative URL found
PatternNone(r) ==
    IF Truthy(r.creative_url) THEN r
    ELSE [r EXCEPT !.creative_url = Null, !.ad_type = Str("unknown")]

\* the creative URL block of a revision
CreativeChain(rev, r, doc) ==
    IF rev = "cheerio"
    THEN PatternNone(Pattern4(Pattern3(Pattern2(Pattern1(
             Pattern0c(Pattern0b(Pattern0a(r, doc), doc), doc), doc), doc), doc), doc))
    ELSE IF rev = "playwright_video"
    THEN PatternNone(Pattern4(Pattern3(Pattern0b(VideoPattern3(VideoPattern2(
             VideoPattern1(r, doc), doc), doc), doc), doc), doc))
    ELSE PatternNone(Pattern4(Pattern3(Pattern0b(Pattern0a(r, doc), doc), doc), doc))

\* -------------------------------------------------------- CTA URL patterns
\* The steps of the try block work on a context: the record so far, the fault
\* thrown (Undef while none is), and the field extractors invoked so far.
NewContext(r) == [res |-> r, thrown |-> Undef, ran |-> {}]

\* CTA pattern 1 (Cheerio revision): the last "link_url" payload, unescaped
CtaPattern1(rev, ctx, doc) ==
    LET linkUrlMatches == RawMatches(doc, "link_url")
    IN IF rev = "cheerio" /\ Len(linkUrlMatches) > 0
       THEN [ctx EXCEPT !.res.cta_url = Unescape(linkUrlMatches[Len(linkUrlMatches)])]
       ELSE ctx

RedirectLink(doc) ==
    FirstAttr(doc, {i \in Select(doc, "a") :
                      Includes(Attr(doc, i, "href"), "l.facebook.com/l.php")}, "href")

\* The redirect pattern with the URL parsed outside any try/catch: a parse
\* error leaves the block.
CtaRedirectUncaught(rev, ctx, doc) ==
    LET redirectLink == RedirectLink(doc)
    IN IF (rev = "cheerio" /\ Truthy(ctx.res.cta_url)) \/ Falsy(redirectLink) THEN ctx
       ELSE IF ~UrlParses(redirectLink)
       THEN [ctx EXCEPT !.thrown = <<"Invalid URL">>]
       ELSE [ctx EXCEPT !.res.cta_url = SearchParam(redirectLink, "u=")]

\* CTA pattern 2: the u parameter of the first l.facebook.com/l.php anchor;
\* new URL() is inside its own try/catch, whose catch block does nothing.
CtaRedirect(rev, ctx, doc) ==
    LET redirectLink == RedirectLink(doc)
    IN IF (rev = "cheerio" /\ Truthy(ctx.res.cta_url)) \/ Falsy(redirectLink) THEN ctx
       ELSE IF ~UrlParses(redirectLink) THEN ctx
       ELSE LET targetUrl == SearchParam(redirectLink, "u=")
            IN IF rev = "cheerio"
               THEN IF Truthy(targetUrl) THEN [ctx EXCEPT !.res.cta_url = targetUrl]
                    ELSE ctx
               ELSE [ctx EXCEPT !.res.cta_url = targetUrl]

\* CTA pattern 3: $('a[href^="http"]').not('[href*="facebook.com"]').first(),
\* and null when nothing was found
CtaPattern3(rev, ctx, doc) ==
    LET sel == {i \in Select(doc, "a") :
                  /\ StartsWith(Attr(doc, i, "href"), "http")
                  /\ ~Includes(Attr(doc, i, "href"), "facebook.com")}
        externalLink == FirstAttr(doc, sel, "href")
    IN IF Truthy(ctx.res.cta_url) THEN ctx
       ELSE [ctx EXCEPT !.res.cta_url = Or(externalLink, Null)]

\* the CTA URL block of a revision
CtaChain(rev, ctx, doc) ==
    LET c1 == CtaPattern1(rev, ctx, doc)
        c2 == CtaRedirect(rev, c1, doc)
    IN IF c2.thrown /= Undef THEN c2 ELSE CtaPattern3(rev, c2, doc)

\* CTA domain (Cheerio revision): hostname without "www.", null when the URL
\* does not parse; the key is left unset when there is no CTA URL.
CtaDomain(r) ==
    IF Falsy(r.cta_url) THEN r
    ELSE IF UrlParses(r.cta_url)
    THEN [r EXCEPT !.cta_domain = ReplaceFirstWww(Hostname(r.cta_url))]
    ELSE [r EXCEPT !.cta_domain = Null]

\* ----------------------------------------------------- text and metadata
AdvertiserName(r, doc) ==
    LET advertiserName == Trim(doc.text.advSpan)
    IN [r EXCEPT !.advertiser_name =
          Or(advertiserName, Or(doc.text.imgAlt, Str("Unknown")))]

LibraryId(r, doc) == [r EXCEPT !.library_id = LibraryIdMatch(doc.text.libText)]

IsSponsored(r, doc) ==
    [r EXCEPT !.is_sponsored = IF doc.text.sponsored THEN JsTrue ELSE JsFalse]

MinAdTextLength == 20
\* The ad copy without the length filter: the first candidate's text.
AdTextUnfiltered(r, doc) ==
    LET cands == doc.text.adTexts
        text == IF cands = <<>> THEN <<>> ELSE cands[1]
    IN [r EXCEPT !.ad_text = Or(Trim(text), Null)]

\* $('._7jyr span, ._4ik4._4ik5').filter(text.length > 20).first().text().trim() || null
AdText(r, doc) ==
    LET cands == doc.text.adTexts
        sel == {i \in 1..Len(cands) : StrLen(cands[i]) > MinAdTextLength}
        text == IF sel = {} THEN <<>>
                ELSE cands[CHOOSE i \in sel : \A j \in sel : i <= j]
    IN [r EXCEPT !.ad_text = Or(Trim(text), Null)]

CtaText(r, doc) == [r EXCEPT !.cta_text = Or(Trim(doc.text.ctaButton), Null)]

\* ---------------------------------------------------------- the try block
\* The field extractors of a revision, in the order the handler runs them.
Steps(rev) ==
    IF rev = "cheerio"
    THEN <<"advertiser_name", "library_id", "is_sponsored", "ad_text",
           "creative_url", "cta_url", "cta_text", "cta_domain">>
    ELSE <<"advertiser_name", "library_id", "creative_url", "cta_url">>

ApplyStep(rev, name, ctx, doc) ==
    CASE name = "advertiser_name" -> [ctx EXCEPT !.res = AdvertiserName(@, doc)]
      [] name = "library_id" -> [ctx EXCEPT !.res = LibraryId(@, doc)]
      [] name = "is_sponsored" -> [ctx EXCEPT !.res = IsSponsored(@, doc)]
      [] name = "ad_text" -> [ctx EXCEPT !.res = AdText(@, doc)]
      [] name = "creative_url" -> [ctx EXCEPT !.res = CreativeChain(rev, @, doc)]
      [] name = "cta_url" -> CtaChain(rev, ctx, doc)
      [] name = "cta_text" -> [ctx EXCEPT !.res = CtaText(@, doc)]
      [] name = "cta_domain" -> [ctx EXCEPT !.res = CtaDomain(@)]

FaultMessage(name) == <<"fault in", name>>

\* One statement group of the try block. A fault thrown earlier skips it: the
\* block has a single catch, at its end. faultAt names the extractor in which
\* the environment raises a fault ("none": nowhere).
RunStep(rev, name, ctx, doc, faultAt) ==
    IF ctx.thrown /= Undef THEN ctx
    ELSE LET c1 == [ctx EXCEPT !.ran = @ \cup {name}]
         IN IF faultAt = name THEN [c1 EXCEPT !.thrown = FaultMessage(name)]
            ELSE ApplyStep(rev, name, c1, doc)

RECURSIVE RunSteps(_, _, _, _, _)
RunSteps(rev, names, ctx, doc, faultAt) ==
    IF names = <<>> THEN ctx
    ELSE RunSteps(rev, Tail(names), RunStep(rev, Head(names), ctx, doc, faultAt),
                  doc, faultAt)

\* A status that treats a record without creative URL as an error.
MarkSuccessUnlessEmpty(r) ==
    [r EXCEPT !.status = IF r.creative_url = Null THEN Str("ERROR") ELSE Str("SUCCESS")]

\* result.status = 'SUCCESS'
MarkSuccess(r) == [r EXCEPT !.status = Str("SUCCESS")]

\* The try block from the parsed document to the line before pushData.
TryBlock(rev, r, doc, faultAt) ==
    LET c == RunSteps(rev, Steps(rev), NewContext(r), doc, faultAt)
    IN IF c.thrown /= Undef THEN c ELSE [c EXCEPT !.res = MarkSuccess(@)]

\* A catch block that builds the error record afresh, losing the identity fields.
CatchBlockFresh(rev, r, message) ==
    [EmptyRecord EXCEPT !.status = Str("ERROR"), !.error = message]

\* The catch block up to its pushData.
CatchBlock(rev, r, message) ==
    LET e == [r EXCEPT !.status = Str("ERROR"), !.error = message]
    IN IF rev = "cheerio" THEN [e EXCEPT !.error_stack = <<"stack of">> \o message]
       ELSE e

\* The record failedRequestHandler pushes.
FailedRecord(url, message, t) ==
    [EmptyRecord EXCEPT !.status = Str("FAILED"), !.url = url,
                        !.ad_id = FailedAdIdMatch(url), !.error = message,
                        !.timestamp = IsoString(t)]

\* ---------------------------------------------------------------- the crawl
VARIABLES
    input,        \* what Actor.getInput() returned
    main,         \* where main.js is, and the error it threw
    revision,     \* which revision of routes.js is the request handler
    startUrls,    \* input.startUrls, as the set of requests the crawler runs
    maxRetries,   \* input.maxRetries, the crawler's maxRequestRetries
    maxConcurrency,  \* input.maxConcurrency
    page,         \* the content each URL serves
    requests,     \* per URL: the crawler's state, retry count and last error
    attempts,     \* per URL: the handler invocations, oldest first
    pushed,       \* the calls of pushData, oldest first, accepted by the sink or not
    clock,        \* the wall clock
    faults,       \* faults raised so far
    exited        \* Actor.exit() was reached

vars == <<input, main, revision, startUrls, maxRetries, maxConcurrency, page, requests, attempts, pushed, clock,
          faults, exited>>

Url1 == <<"https", "://", "www.", "facebook.com", "/ads/archive/render_ad/",
          "?", "id=", "2500", "&", "access_token=", "X">>
Url2 == <<"https", "://", "www.", "facebook.com", "/ads/archive/render_ad/",
          "?", "video_id=", "77", "&", "access_token=", "X">>
\* a URL without query, one whose id is not the first parameter, one whose id
\* has no digits
Url3 == <<"https", "://", "www.", "facebook.com", "/ads/library/">>
Url4 == <<"https", "://", "www.", "facebook.com", "/ads/archive/render_ad/",
          "?", "access_token=", "X", "&", "id=", "4">>
Url5 == <<"https", "://", "www.", "facebook.com", "/ads/archive/render_ad/",
          "?", "id=", "abc", "&", "access_token=", "X">>
\* Requests are named by a key; Url gives the URL of each.
UrlPool == {"u1", "u2", "u3", "u4", "u5"}
Url(u) ==
    CASE u = "u1" -> Url1
      [] u = "u2" -> Url2
      [] u = "u3" -> Url3
      [] u = "u4" -> Url4
      [] u = "u5" -> Url5
\* the URLs of the crawls with more than one request
CrawlUrls == {"u1", "u2"}

\* the pages served during a crawl: nothing to extract, every field present,
\* an unparseable redirect
CrawlDocs ==
    { EmptyDoc,
      [elems |-> <<CHOOSE v \in VideoElems : Includes(v.src, "fbcdn"),
                   CHOOSE a \in AnchorElems : UrlParses(a.href) /\ Includes(a.href, "u=")>>,
       raw |-> <<>>, text |-> FullText],
      [elems |-> <<CHOOSE a \in AnchorElems : a.href[1] = "//">>,
       raw |-> <<>>, text |-> AltText] }

\* maxRetries = 1 when the input gives none
DefaultMaxRetries == 1
\* "Automatic retries (up to 3x)"
DocumentedRetries == 3

\* maxConcurrency = 15 when the input gives none
DefaultMaxConcurrency == 15

\* ---- the input
\* A number of the input, or its absence.
Num(n) == [has |-> TRUE, val |-> n]
Absent == [has |-> FALSE, val |-> 0]
\* The values input.startUrls can have: absent, null, a string, an array of URLs.
NotGiven == [type |-> "undefined", items |-> <<>>]
NullValue == [type |-> "null", items |-> <<>>]
StringValue == [type |-> "string", items |-> <<"u1">>]
Array(items) == [type |-> "array", items |-> items]
StartUrlsValues ==
    {NotGiven, NullValue, StringValue} \cup {Array(a) : a \in SeqsUpTo(CrawlUrls, MaxStartUrls)}
\* no input at all
NoInput == [present |-> FALSE, startUrls |-> NotGiven, maxRetries |-> Absent,
            maxConcurrency |-> Absent]
Inputs ==
    {NoInput} \cup
    [present : {TRUE}, startUrls : StartUrlsValues,
     maxRetries : {Absent} \cup {Num(n) : n \in 0..MaxRetriesInput},
     maxConcurrency : {Absent} \cup {Num(n) : n \in 1..MaxConcurrencyInput}]

\* Array.isArray
IsArray(v) == v.type = "array"
\* const { startUrls = [], ... } = input: the default replaces an absent key only
OrDefault(v, d) == IF v.type = "undefined" THEN d ELSE v
NumOrDefault(n, d) == IF n.has THEN n.val ELSE d

\* A validation that tests the length only.
InputErrorLengthOnly(in) ==
    IF ~in.present THEN <<"Input is required">>
    ELSE IF Len(OrDefault(in.startUrls, Array(<<>>)).items) = 0
    THEN <<"startUrls is required">>
    ELSE Undef

\* The error main.js throws on an input (Undef: none): if (!input) throw;
\* if (!Array.isArray(startUrls) || startUrls.length === 0) throw
InputError(in) ==
    IF ~in.present THEN <<"Input is required">>
    ELSE LET startUrlsValue == OrDefault(in.startUrls, Array(<<>>))
         IN IF ~IsArray(startUrlsValue) \/ Len(startUrlsValue.items) = 0
            THEN <<"startUrls is required">>
            ELSE Undef

\* an input that gives the start URLs S, m retries and concurrency c
InputFor(S, m, c) ==
    [present |-> TRUE,
     startUrls |-> Array(CHOOSE a \in [1..Cardinality(S) -> S] :
                            \A u \in S : \E i \in 1..Cardinality(S) : a[i] = u),
     maxRetries |-> Num(m), maxConcurrency |-> Num(c)]

NewRequest == [state |-> "queued", retryCount |-> 0, error |-> Undef]

InitCrawl ==
    /\ requests = [u \in UrlPool |-> NewRequest]
    /\ attempts = [u \in UrlPool |-> <<>>]
    /\ pushed = <<>>
    /\ clock = 0
    /\ faults = 0
    /\ exited = FALSE

\* main.js has validated the input and runs the crawler
Validated ==
    /\ input = InputFor(startUrls, maxRetries, maxConcurrency)
    /\ main = [pc |-> "run", error |-> Undef]

\* main.js from Actor.getInput() to crawler.run(startUrls): the input is
\* validated and destructured, or an error is thrown.
ValidateInput ==
    LET e == InputError(input)
        items == input.startUrls.items
    IN /\ main.pc = "start"
       /\ IF e /= Undef
          THEN /\ main' = [pc |-> "threw", error |-> e]
               /\ UNCHANGED <<startUrls, maxRetries, maxConcurrency>>
          ELSE /\ main' = [pc |-> "run", error |-> Undef]
               /\ startUrls' = {items[i] : i \in 1..Len(items)}
               /\ maxRetries' = NumOrDefault(input.maxRetries, DefaultMaxRetries)
               /\ maxConcurrency' = NumOrDefault(input.maxConcurrency, DefaultMaxConcurrency)
       /\ UNCHANGED <<input, revision, page, requests, attempts, pushed, clock, faults, exited>>

\* main.js up to crawler.run(startUrls): a validated input
Init ==
    /\ revision \in Revisions
    /\ startUrls \in (SUBSET CrawlUrls) \ {{}}
    /\ maxRetries \in 0..MaxRetriesInput
    /\ maxConcurrency \in 1..MaxConcurrencyInput
    /\ \E d \in CrawlDocs : page = [u \in UrlPool |-> IF u \in startUrls THEN d ELSE EmptyDoc]
    /\ Validated
    /\ InitCrawl

\* the records in the dataset: the calls of pushData the sink accepted
Accepted(call) == call.ok
Dataset ==
    LET calls == SelectSeq(pushed, Accepted)
    IN [j \in 1..Len(calls) |-> calls[j].rec]

\* One call of pushData: the record, whether the sink accepted it, the request
\* and attempt that made it (attempt 0: failedRequestHandler), the block it was
\* made from, the fault that led to it (Undef: none) and the field extractors
\* invoked for the URL until then.
Call(rec, ok, u, i, via, cause, ran) ==
    [rec |-> rec, ok |-> ok, url |-> u, attempt |-> i, via |-> via, cause |-> cause,
     ran |-> ran]

\* the field extractors invoked so far for u, over all attempts
RanFor(u) == UNION {attempts[u][i].ran : i \in 1..Len(attempts[u])}

Cur(u) == Len(attempts[u])
Live(u, i) == ~exited /\ u \in startUrls /\ i \in 1..Len(attempts[u])
MayFault == faults < MaxFaults

\* The crawler's reaction to a failed attempt: retry while
\* request.retryCount < maxRequestRetries, else hand over to failedRequestHandler.
Failure(req, message) ==
    IF req.retryCount < maxRetries
    THEN [state |-> "queued", retryCount |-> req.retryCount + 1, error |-> message]
    ELSE [req EXCEPT !.state = "failing", !.error = message]

\* Navigation succeeded: the crawler invokes the request handler, which
\* creates the result with its identity fields.
StartHandler(u) ==
    /\ main.pc = "run"
    /\ ~exited /\ u \in startUrls /\ requests[u].state = "queued"
    /\ Cardinality({v \in startUrls : requests[v].state \in {"running", "failing"}})
          < maxConcurrency
    /\ requests' = [requests EXCEPT ![u].state = "running"]
    /\ attempts' = [attempts EXCEPT ![u] = Append(@,
           [pc |-> "init", res |-> NewResult(Url(u), clock), thrown |-> Undef, ran |-> {},
            timedOut |-> FALSE, fieldFault |-> "none", createdAt |-> clock,
            rejection |-> Undef])]
    /\ UNCHANGED <<input, main, revision, startUrls, maxRetries, maxConcurrency, page, pushed, clock, faults, exited>>

\* Navigation failed: the handler is not invoked for this attempt.
NavigationFailed(u) ==
    /\ main.pc = "run"
    /\ ~exited /\ u \in startUrls /\ requests[u].state = "queued" /\ MayFault
    /\ requests' = [requests EXCEPT ![u] = Failure(@, <<"navigation failed">>)]
    /\ faults' = faults + 1
    /\ UNCHANGED <<input, main, revision, startUrls, maxRetries, maxConcurrency, page, attempts, pushed, clock, exited>>

\* try: ad_id from the URL, the waits, page.content() / $('body').html()
LoadContent(u, i) ==
    /\ Live(u, i) /\ attempts[u][i].pc = "init"
    /\ attempts' = [attempts EXCEPT ![u][i].pc = "loaded",
                                    ![u][i].res.ad_id = AdIdMatch(Url(u))]
    /\ UNCHANGED <<input, main, revision, startUrls, maxRetries, maxConcurrency, page, requests, pushed, clock,
                   faults, exited>>

\* the same, with a fault while the page content is obtained
LoadContentFault(u, i) ==
    /\ Live(u, i) /\ attempts[u][i].pc = "init" /\ MayFault
    /\ attempts' = [attempts EXCEPT ![u][i].pc = "catch",
                                    ![u][i].res.ad_id = AdIdMatch(Url(u)),
                                    ![u][i].thrown = <<"page closed">>]
    /\ faults' = faults + 1
    /\ UNCHANGED <<input, main, revision, startUrls, maxRetries, maxConcurrency, page, requests, pushed, clock, exited>>

\* The rest of the try block up to pushData, with a fault raised in faultAt.
ExtractWith(u, i, faultAt) ==
    LET a == attempts[u][i]
        c == TryBlock(revision, a.res, page[u], faultAt)
    IN /\ Live(u, i) /\ a.pc = "loaded"
       /\ attempts' = [attempts EXCEPT ![u][i] =
             [a EXCEPT !.pc = IF c.thrown = Undef THEN "extracted" ELSE "catch",
                       !.res = c.res, !.thrown = c.thrown, !.ran = c.ran,
                       !.fieldFault = faultAt]]
       /\ UNCHANGED <<input, main, revision, startUrls, maxRetries, maxConcurrency, page, requests, pushed, clock,
                      exited>>

Extract(u, i) == ExtractWith(u, i, "none") /\ UNCHANGED faults

ExtractFault(u, i, name) ==
    /\ MayFault
    /\ ExtractWith(u, i, name)
    /\ faults' = faults + 1

\* await Dataset.pushData(result) at the end of the try block
PushData(u, i) ==
    /\ Live(u, i) /\ attempts[u][i].pc = "extracted"
    /\ pushed' = Append(pushed, Call(attempts[u][i].res, TRUE, u, i, "try",
                                attempts[u][i].thrown, attempts[u][i].ran))
    /\ attempts' = [attempts EXCEPT ![u][i].pc = "done"]
    /\ UNCHANGED <<input, main, revision, startUrls, maxRetries, maxConcurrency, page, requests, clock, faults, exited>>

\* the same, rejected by the sink: control passes to the catch block
PushDataFault(u, i) ==
    /\ Live(u, i) /\ attempts[u][i].pc = "extracted" /\ MayFault
    /\ pushed' = Append(pushed, Call(attempts[u][i].res, FALSE, u, i, "try",
                                attempts[u][i].thrown, attempts[u][i].ran))
    /\ attempts' = [attempts EXCEPT ![u][i].pc = "catch",
                                    ![u][i].thrown = <<"sink unavailable">>]
    /\ faults' = faults + 1
    /\ UNCHANGED <<input, main, revision, startUrls, maxRetries, maxConcurrency, page, requests, clock, exited>>

\* catch (error): status ERROR, the message, pushData
CatchPush(u, i) ==
    LET rec == CatchBlock(revision, attempts[u][i].res, attempts[u][i].thrown)
    IN /\ Live(u, i) /\ attempts[u][i].pc = "catch"
       /\ pushed' = Append(pushed, Call(rec, TRUE, u, i, "catch", attempts[u][i].thrown,
                                attempts[u][i].ran))
       /\ attempts' = [attempts EXCEPT ![u][i].pc = "done", ![u][i].res = rec]
       /\ UNCHANGED <<input, main, revision, startUrls, maxRetries, maxConcurrency, page, requests, clock, faults,
                      exited>>

\* the same, rejected by the sink: the handler's promise rejects
CatchPushFault(u, i) ==
    LET rec == CatchBlock(revision, attempts[u][i].res, attempts[u][i].thrown)
    IN /\ Live(u, i) /\ attempts[u][i].pc = "catch" /\ MayFault
       /\ pushed' = Append(pushed, Call(rec, FALSE, u, i, "catch", attempts[u][i].thrown,
                                attempts[u][i].ran))
       /\ attempts' = [attempts EXCEPT ![u][i].pc = "threw", ![u][i].res = rec,
                                       ![u][i].rejection = <<"sink unavailable">>]
       /\ faults' = faults + 1
       /\ UNCHANGED <<input, main, revision, startUrls, maxRetries, maxConcurrency, page, requests, clock, exited>>

Running(u) ==
    ~exited /\ u \in startUrls /\ requests[u].state = "running"
    /\ ~attempts[u][Cur(u)].timedOut

\* the handler's promise resolved: the request is handled
HandlerResolved(u) ==
    /\ Running(u) /\ attempts[u][Cur(u)].pc = "done"
    /\ requests' = [requests EXCEPT ![u].state = "handled"]
    /\ UNCHANGED <<input, main, revision, startUrls, maxRetries, maxConcurrency, page, attempts, pushed, clock,
                   faults, exited>>

\* the handler's promise rejected
HandlerRejected(u) ==
    /\ Running(u) /\ attempts[u][Cur(u)].pc = "threw"
    /\ requests' = [requests EXCEPT ![u] = Failure(@, attempts[u][Cur(u)].rejection)]
    /\ UNCHANGED <<input, main, revision, startUrls, maxRetries, maxConcurrency, page, attempts, pushed, clock,
                   faults, exited>>

\* requestHandlerTimeoutSecs elapsed: the crawler gives the attempt up; the
\* handler's code is not cancelled and goes on.
HandlerTimeout(u) ==
    /\ Running(u) /\ attempts[u][Cur(u)].pc \notin {"done", "threw"} /\ MayFault
    /\ attempts' = [attempts EXCEPT ![u][Cur(u)].timedOut = TRUE]
    /\ requests' = [requests EXCEPT ![u] = Failure(@, <<"requestHandler timed out">>)]
    /\ faults' = faults + 1
    /\ UNCHANGED <<input, main, revision, startUrls, maxRetries, maxConcurrency, page, pushed, clock, exited>>

\* failedRequestHandler: retries are exhausted
FailedRequestHandler(u) ==
    /\ ~exited /\ u \in startUrls /\ requests[u].state = "failing"
    /\ pushed' = Append(pushed,
          Call(FailedRecord(Url(u), requests[u].error, clock), TRUE, u, 0, "failed",
               requests[u].error, RanFor(u)))
    /\ requests' = [requests EXCEPT ![u].state = "failed"]
    /\ UNCHANGED <<input, main, revision, startUrls, maxRetries, maxConcurrency, page, attempts, clock, faults, exited>>

\* the same, with Actor.pushData rejected by the sink
FailedRequestHandlerFault(u) ==
    /\ ~exited /\ u \in startUrls /\ requests[u].state = "failing" /\ MayFault
    /\ pushed' = Append(pushed,
          Call(FailedRecord(Url(u), requests[u].error, clock), FALSE, u, 0, "failed",
               requests[u].error, RanFor(u)))
    /\ requests' = [requests EXCEPT ![u].state = "failed"]
    /\ faults' = faults + 1
    /\ UNCHANGED <<input, main, revision, startUrls, maxRetries, maxConcurrency, page, attempts, clock, exited>>

\* time passes; the clock is read when a handler starts and when
\* failedRequestHandler runs
Tick ==
    /\ ~exited /\ clock < MaxClock
    /\ \E u \in startUrls : requests[u].state \in {"queued", "failing"}
    /\ clock' = clock + 1
    /\ UNCHANGED <<input, main, revision, startUrls, maxRetries, maxConcurrency, page, requests, attempts, pushed,
                   faults, exited>>

Finished == \A u \in startUrls : requests[u].state \in {"handled", "failed"}

\* crawler.run() returned and Actor.exit() ends the process
ActorExit ==
    /\ main.pc = "run" /\ ~exited /\ Finished
    /\ exited' = TRUE
    /\ UNCHANGED <<input, main, revision, startUrls, maxRetries, maxConcurrency, page, requests, attempts, pushed,
                   clock, faults>>

AllSteps == {"advertiser_name", "library_id", "is_sponsored", "ad_text",
             "creative_url", "cta_url", "cta_text", "cta_domain"}

Next ==
    \/ \E u \in UrlPool : StartHandler(u)
    \/ \E u \in UrlPool : NavigationFailed(u)
    \/ \E u \in UrlPool, i \in 1..(MaxRetriesInput + 1) : LoadContent(u, i)
    \/ \E u \in UrlPool, i \in 1..(MaxRetriesInput + 1) : LoadContentFault(u, i)
    \/ \E u \in UrlPool, i \in 1..(MaxRetriesInput + 1) : Extract(u, i)
    \/ \E u \in UrlPool, i \in 1..(MaxRetriesInput + 1), name \in AllSteps :
          ExtractFault(u, i, name)
    \/ \E u \in UrlPool, i \in 1..(MaxRetriesInput + 1) : PushData(u, i)
    \/ \E u \in UrlPool, i \in 1..(MaxRetriesInput + 1) : PushDataFault(u, i)
    \/ \E u \in UrlPool, i \in 1..(MaxRetriesInput + 1) : CatchPush(u, i)
    \/ \E u \in UrlPool, i \in 1..(MaxRetriesInput + 1) : CatchPushFault(u, i)
    \/ \E u \in UrlPool : HandlerResolved(u)
    \/ \E u \in UrlPool : HandlerRejected(u)
    \/ \E u \in UrlPool : HandlerTimeout(u)
    \/ \E u \in UrlPool : FailedRequestHandler(u)
    \/ \E u \in UrlPool : FailedRequestHandlerFault(u)
    \/ Tick
    \/ ActorExit

Spec == Init /\ [][Next]_vars

\* ------------------------------------------------ one request, with faults
\* The crawl of a single start URL, with every fault, timeout and retry of Spec.
InitHandler ==
    /\ revision \in Revisions
    /\ startUrls = {"u1"}
    /\ maxRetries \in 0..MaxRetriesInput
    /\ maxConcurrency \in 1..MaxConcurrencyInput
    /\ \E d \in CrawlDocs : page = [u \in UrlPool |-> IF u = "u1" THEN d ELSE EmptyDoc]
    /\ Validated
    /\ InitCrawl

SpecHandler == InitHandler /\ [][Next]_vars

\* ------------------------------------------- extraction over all pages
\* One request and no faults, over every page of AllDocs: the handler from its
\* invocation to pushData.
InitExtract ==
    /\ revision \in Revisions
    /\ startUrls = {"u1"}
    /\ maxRetries = 0
    /\ maxConcurrency = 1
    /\ \E d \in AllDocs : page = [u \in UrlPool |-> IF u = "u1" THEN d ELSE EmptyDoc]
    /\ Validated
    /\ InitCrawl

NextExtract ==
    \/ StartHandler("u1")
    \/ LoadContent("u1", 1)
    \/ Extract("u1", 1)
    \/ PushData("u1", 1)

SpecExtract == InitExtract /\ [][NextExtract]_vars

\* ------------------------------------------- one request of any URL
\* One request and no faults, over every URL of UrlPool and the mixed pages.
InitIdentity ==
    /\ revision \in Revisions
    /\ \E u \in UrlPool : startUrls = {u}
    /\ maxRetries = 0
    /\ maxConcurrency = 1
    /\ \E d \in SampleDocs : page = [u \in UrlPool |-> IF u \in startUrls THEN d ELSE EmptyDoc]
    /\ Validated
    /\ InitCrawl

NextIdentity ==
    \/ \E u \in UrlPool : StartHandler(u)
    \/ \E u \in UrlPool : LoadContent(u, 1)
    \/ \E u \in UrlPool : Extract(u, 1)
    \/ \E u \in UrlPool : PushData(u, 1)

SpecIdentity == InitIdentity /\ [][NextIdentity]_vars

\* ------------------------------------------- the creative of every revision
\* One request and no faults, in each of the three revisions of the handler,
\* over the pages that vary the creative.
InitCreative ==
    /\ revision \in AllRevisions
    /\ startUrls = {"u1"}
    /\ maxRetries = 0
    /\ maxConcurrency = 1
    /\ \E d \in CreativeDocs \cup VideoDocs :
          page = [u \in UrlPool |-> IF u = "u1" THEN d ELSE EmptyDoc]
    /\ Validated
    /\ InitCrawl

SpecCreative == InitCreative /\ [][NextExtract]_vars

\* ------------------------------------------------ main.js from any input
\* main.js from Actor.getInput() on, over valid and invalid inputs, and the
\* crawl without faults that follows a valid one.
InitMain ==
    /\ input \in Inputs
    /\ main = [pc |-> "start", error |-> Undef]
    /\ revision \in Revisions
    /\ startUrls = {}
    /\ maxRetries = 0
    /\ maxConcurrency = 1
    /\ \E d \in CrawlDocs : page = [u \in UrlPool |-> IF u \in CrawlUrls THEN d ELSE EmptyDoc]
    /\ InitCrawl

NextMain ==
    \/ ValidateInput
    \/ \E u \in UrlPool : StartHandler(u)
    \/ \E u \in UrlPool : LoadContent(u, 1)
    \/ \E u \in UrlPool : Extract(u, 1)
    \/ \E u \in UrlPool : PushData(u, 1)
    \/ \E u \in UrlPool : HandlerResolved(u)
    \/ ActorExit

SpecMain == InitMain /\ [][NextMain]_vars

\* ================================================================ claims
StepSet(rev) == {Steps(rev)[k] : k \in 1..Len(Steps(rev))}
\* the URL a record of the dataset is about
RecordUrl(rec) == IF rec.status = Str("FAILED") THEN rec.url ELSE rec.ad_archive_url
RecordsFor(u) == {j \in 1..Len(Dataset) : RecordUrl(Dataset[j]) = Url(u)}
AttemptIds == {<<u, i>> : u \in UrlPool, i \in 1..(MaxRetriesInput + 1)}
Started == {x \in AttemptIds : x[2] <= Len(attempts[x[1]])}
At(x) == attempts[x[1]][x[2]]

\* C1: once the crawl has finished, the dataset holds exactly one record for
\* every URL of startUrls, whatever faults, sink rejections, timeouts and
\* retries happened.
C1_ExactlyOneRecordPerUrl ==
    exited => \A u \in startUrls : Cardinality(RecordsFor(u)) = 1

\* C2: a fault raised in one field extractor is contained: the other field
\* extractors of the record are still invoked and the handler does not enter
\* its catch block (the record does not become an ERROR record).
C2_FieldFaultContained ==
    \A x \in Started :
        At(x).fieldFault /= "none" =>
            /\ At(x).ran = StepSet(revision)
            /\ At(x).pc /= "catch"
            /\ At(x).res.status /= Str("ERROR")

\* C3: a record handed to the sink with no fault behind it has status SUCCESS,
\* whichever content fields are absent; ERROR and FAILED records always have a
\* fault as their cause.
C3_AbsenceIsNotError ==
    \A j \in 1..Len(pushed) :
        pushed[j].cause = Undef => pushed[j].rec.status = Str("SUCCESS")

\* C3 witness: a SUCCESS record in the dataset with every content field absent.
C3_Witness ==
    \E j \in 1..Len(Dataset) :
        LET r == Dataset[j]
        IN /\ r.status = Str("SUCCESS")
           /\ r.creative_url = Null /\ r.cta_url = Null /\ r.library_id = Null
           /\ r.advertiser_name = Str("Unknown")
           /\ Falsy(r.ad_text) /\ Falsy(r.cta_text) /\ Falsy(r.cta_domain)

\* C4: an attempt whose try block was left by a fault hands a record to the
\* sink from its catch block, with status ERROR, the fault's message as error,
\* and the identity fields set when the result was created.
C4_ErrorRecordOnHandlerFault ==
    \A x \in Started :
        (At(x).thrown /= Undef /\ At(x).pc \in {"done", "threw"}) =>
            \E j \in 1..Len(pushed) :
                /\ pushed[j].url = x[1] /\ pushed[j].attempt = x[2]
                /\ pushed[j].via = "catch"
                /\ pushed[j].rec.status = Str("ERROR")
                /\ pushed[j].rec.error = At(x).thrown
                /\ pushed[j].rec.ad_archive_url = Url(x[1])
                /\ pushed[j].rec.crawled_at = IsoString(At(x).createdAt)

\* C4 witness: a fault while the page content is obtained, and its ERROR
\* record in the dataset.
C4_Witness ==
    \E j \in 1..Len(Dataset) :
        /\ Dataset[j].status = Str("ERROR")
        /\ Dataset[j].error = <<"page closed">>
        /\ Dataset[j].ad_archive_url \in {Url(u) : u \in startUrls}
        /\ Dataset[j].crawled_at /= Undef

\* C5: when a FAILED record is pushed for a URL, no field extractor was
\* invoked for that URL in any attempt.
C5_FailedMeansNoExtraction ==
    \A j \in 1..Len(pushed) :
        pushed[j].via = "failed" => pushed[j].ran = {}

\* The attempts that are past their field extraction.
Extracted == {x \in Started : At(x).pc \notin {"init", "loaded"}}
Doc(x) == page[x[1]]

\* A creative tier on its own: the pattern applied to a record without creative
\* URL. The tiers in the priority order of the claim: video src, lynx image,
\* container image, resized_image_url, video_hd_url, any image, video poster.
TierAlone(k, doc) ==
    CASE k = 1 -> Pattern0a(EmptyRecord, doc)
      [] k = 2 -> Pattern0b(EmptyRecord, doc)
      [] k = 3 -> Pattern0c(EmptyRecord, doc)
      [] k = 4 -> Pattern1(EmptyRecord, doc)
      [] k = 5 -> Pattern2(EmptyRecord, doc)
      [] k = 6 -> Pattern3(EmptyRecord, doc)
      [] k = 7 -> Pattern4(EmptyRecord, doc)
TierMatches(k, doc) == Truthy(TierAlone(k, doc).creative_url)
BestTier(doc) ==
    LET m == {k \in 1..7 : TierMatches(k, doc)}
    IN IF m = {} THEN PatternNone(EmptyRecord)
       ELSE TierAlone(CHOOSE k \in m : \A j \in m : k <= j, doc)

\* C6: in the Cheerio revision, creative_url and ad_type are those of the
\* highest-priority creative tier that matches; a lower tier never overrides a
\* higher one.
C6_CreativePriorityOrder ==
    \A x \in Extracted :
        revision = "cheerio" =>
            /\ At(x).res.creative_url = BestTier(Doc(x)).creative_url
            /\ At(x).res.ad_type = BestTier(Doc(x)).ad_type

\* C7: in the Cheerio revision, on a page with a video src on the asset host
\* and an inline video_hd_url payload, creative_url is the video src.
C7_VideoSrcBeatsHdPayload ==
    \A x \in Extracted :
        (/\ revision = "cheerio"
         /\ TierMatches(1, Doc(x))
         /\ Len(RawMatches(Doc(x), "video_hd_url")) > 0) =>
            At(x).res.creative_url = TierAlone(1, Doc(x)).creative_url

\* C8: creative_url is never an image URL with the 60x60 token, whichever tier
\* selected it.
C8_NoThumbnailCreative ==
    \A x \in Extracted :
        At(x).res.ad_type \in {Str("image"), Str("video_thumbnail")} =>
            ~Includes(At(x).res.creative_url, "60x60")

\* The CTA tiers on their own.
CtaTier1(doc) ==
    LET m == RawMatches(doc, "link_url")
    IN IF Len(m) > 0 THEN Unescape(m[Len(m)]) ELSE Undef
CtaTier2(doc) ==
    IF Truthy(RedirectLink(doc)) /\ UrlParses(RedirectLink(doc))
    THEN SearchParam(RedirectLink(doc), "u=") ELSE Undef
CtaTier3(doc) ==
    FirstAttr(doc, {i \in Select(doc, "a") :
                      /\ StartsWith(Attr(doc, i, "href"), "http")
                      /\ ~Includes(Attr(doc, i, "href"), "facebook.com")}, "href")
BestCta(doc) == Or(CtaTier1(doc), Or(CtaTier2(doc), Or(CtaTier3(doc), Null)))

\* C9: cta_url is the value of the first CTA tier that yields one, in the order
\* link_url payload, redirect anchor's u parameter, first external anchor, and
\* null when none does.
C9_CtaPriorityOrder ==
    \A x \in Extracted :
        At(x).fieldFault = "none" => At(x).res.cta_url = BestCta(Doc(x))

\* The pages on which the redirect tier is consulted and its href does not parse.
RedirectUnparseable(rev, doc) ==
    /\ Truthy(RedirectLink(doc))
    /\ ~UrlParses(RedirectLink(doc))
    /\ ~(rev = "cheerio" /\ Truthy(CtaTier1(doc)))

\* C10: when the redirect anchor's href cannot be parsed, the try block is not
\* left: the redirect tier yields nothing, cta_url comes from the first
\* external anchor (null when there is none) and the status is SUCCESS.
C10_RedirectParseErrorContained ==
    \A x \in Extracted :
        (At(x).fieldFault = "none" /\ RedirectUnparseable(revision, Doc(x))) =>
            /\ At(x).pc \in {"extracted", "done"}
            /\ At(x).res.status = Str("SUCCESS")
            /\ At(x).res.cta_url = Or(CtaTier3(Doc(x)), Null)

\* C10 witness: a SUCCESS record in the dataset from a page whose redirect
\* href does not parse, with the external anchor's href as cta_url.
C10_Witness ==
    \E x \in Extracted :
        /\ RedirectUnparseable(revision, Doc(x))
        /\ Truthy(CtaTier3(Doc(x)))
        /\ At(x).pc = "done"
        /\ \E j \in 1..Len(Dataset) :
              /\ Dataset[j] = At(x).res
              /\ Dataset[j].status = Str("SUCCESS")
              /\ Dataset[j].cta_url = CtaTier3(Doc(x))

\* A hostname without its leading "www." label.
StripLeadingWww(h) == IF h /= <<>> /\ h[1] = "www." THEN Tail(h) ELSE h

\* The attempts of the Cheerio revision whose try block ran to its end.
ExtractedCheerio ==
    {x \in Extracted : revision = "cheerio" /\ At(x).fieldFault = "none"}

\* C11: in the Cheerio revision, when a CTA URL was found, cta_domain is its
\* hostname with only a leading "www." label removed; when the CTA URL does not
\* parse, cta_domain is null and the status is SUCCESS.
C11_CtaDomainLeadingWwwOnly ==
    \A x \in ExtractedCheerio :
        Truthy(At(x).res.cta_url) =>
            IF UrlParses(At(x).res.cta_url)
            THEN At(x).res.cta_domain = StripLeadingWww(Hostname(At(x).res.cta_url))
            ELSE At(x).res.cta_domain = Null /\ At(x).res.status = Str("SUCCESS")

\* C11 with a hostname that has no "www." label after its first one.
CtaDomainNoInnerWww ==
    \A x \in ExtractedCheerio :
        (/\ Truthy(At(x).res.cta_url)
         /\ ~(UrlParses(At(x).res.cta_url)
              /\ Includes(Tail(Hostname(At(x).res.cta_url)), "www."))) =>
            IF UrlParses(At(x).res.cta_url)
            THEN At(x).res.cta_domain = StripLeadingWww(Hostname(At(x).res.cta_url))
            ELSE At(x).res.cta_domain = Null /\ At(x).res.status = Str("SUCCESS")

\* The positions of the id parameters of a URL whose value starts with digits.
NumericIdParams(url) ==
    {i \in 2..(Len(url) - 1) :
        url[i] = "id=" /\ url[i - 1] \in {"?", "&"} /\ IsDigits(url[i + 1])}

\* C12: once the handler has read the URL, ad_id is the digits of the URL's
\* first id parameter that has digits; when the URL has none, ad_id is null,
\* the try block is not left and the record is pushed with status SUCCESS.
C12_AdIdFromUrl ==
    \A x \in Started :
        At(x).pc /= "init" =>
            LET url == Url(x[1])
                ids == NumericIdParams(url)
            IN IF ids = {}
               THEN /\ At(x).res.ad_id = Null
                    /\ At(x).fieldFault = "none" => At(x).pc /= "catch"
                    /\ At(x).pc \in {"extracted", "done"} =>
                          At(x).res.status = Str("SUCCESS")
               ELSE At(x).res.ad_id =
                      Str(url[(CHOOSE i \in ids : \A j \in ids : i <= j) + 1])

\* C12 witness: a SUCCESS record with a null ad_id in the dataset, for a URL
\* whose only digits follow a parameter other than id.
C12_Witness ==
    \E j \in 1..Len(Dataset) :
        /\ Dataset[j].status = Str("SUCCESS")
        /\ Dataset[j].ad_archive_url = Url2 /\ Dataset[j].ad_id = Null

\* The ad-copy candidates of a page that pass the length filter, by position.
LongCandidates(doc) ==
    {i \in 1..Len(doc.text.adTexts) : StrLen(doc.text.adTexts[i]) > MinAdTextLength}

\* C13: in the Cheerio revision, ad_text is the trimmed text of the first
\* candidate, in document order, whose text is longer than 20 characters, and
\* null when no candidate is; a candidate of 20 characters or fewer is never the
\* one selected.
C13_AdTextMinLengthFirstMatch ==
    \A x \in ExtractedCheerio :
        LET cands == Doc(x).text.adTexts
            long == LongCandidates(Doc(x))
        IN /\ IF long = {} THEN At(x).res.ad_text = Null
              ELSE At(x).res.ad_text =
                     Or(Trim(cands[CHOOSE k \in long : \A j \in long : k <= j]), Null)
           /\ \A k \in 1..Len(cands) :
                 (/\ StrLen(cands[k]) <= MinAdTextLength
                  /\ \A j \in long : Trim(cands[j]) /= Trim(cands[k])) =>
                     At(x).res.ad_text /= Trim(cands[k])

\* C13 witness: a record in the dataset from a page whose first candidate has
\* 10 characters and whose second has 25: ad_text is the second one's text.
C13_Witness ==
    \E x \in ExtractedCheerio :
        /\ At(x).pc = "done"
        /\ Len(Doc(x).text.adTexts) >= 2
        /\ Doc(x).text.adTexts[1] = <<"w10">>
        /\ Trim(Doc(x).text.adTexts[2]) = <<"w25">>
        /\ \E j \in 1..Len(Dataset) :
              Dataset[j] = At(x).res /\ Dataset[j].ad_text = <<"w25">>

\* C14: every record pushed by failedRequestHandler has status FAILED, the
\* request's URL, an error description and a retry count.
C14_FailedRecordContents ==
    \A j \in 1..Len(pushed) :
        pushed[j].via = "failed" =>
            /\ pushed[j].rec.status = Str("FAILED")
            /\ pushed[j].rec.url = Url(pushed[j].url)
            /\ Truthy(pushed[j].rec.error)
            /\ pushed[j].rec.retryCount /= Undef

\* C14 without the retry count.
FailedRecordWithoutRetryCount ==
    \A j \in 1..Len(pushed) :
        pushed[j].via = "failed" =>
            /\ pushed[j].rec.status = Str("FAILED")
            /\ pushed[j].rec.url = Url(pushed[j].url)
            /\ Truthy(pushed[j].rec.error)
            /\ pushed[j].rec.error = pushed[j].cause

\* C15: with the input's defaults, a request is given up (handed to
\* failedRequestHandler and recorded as FAILED) only after it has been retried
\* 3 times.
C15_RetriedThreeTimes ==
    \A u \in startUrls :
        (maxRetries = DefaultMaxRetries /\ requests[u].state \in {"failing", "failed"}) =>
            requests[u].retryCount = DocumentedRetries

\* What the crawler does instead: a request is given up after maxRetries
\* retries, and is never retried more often.
RetriedMaxRetriesTimes ==
    \A u \in startUrls :
        /\ requests[u].retryCount <= maxRetries
        /\ requests[u].state \in {"failing", "failed"} => requests[u].retryCount = maxRetries

\* The inputs the claim calls invalid: missing, or with startUrls absent, not
\* an array, or empty.
InvalidInput ==
    \/ ~input.present
    \/ input.startUrls.type /= "array"
    \/ input.startUrls.items = <<>>

\* C16: on an invalid input main.js never reaches the crawler: it throws a
\* configuration error, no request is started or fetched and nothing is
\* pushed.
C16_InvalidInputRejected ==
    InvalidInput =>
        /\ main.pc \in {"start", "threw"}
        /\ main.pc = "threw" => Truthy(main.error)
        /\ \A u \in UrlPool : attempts[u] = <<>> /\ requests[u] = NewRequest
        /\ pushed = <<>>

\* C16 witness: main.js has thrown on an input whose startUrls is a string.
C16_Witness ==
    /\ main.pc = "threw"
    /\ input.present /\ input.startUrls.type = "string"
    /\ pushed = <<>>

\* The keys of the documented output schema.
SchemaKeys == {"ad_archive_url", "crawled_at", "ad_id", "advertiser_name", "library_id",
               "is_sponsored", "ad_text", "creative_url", "ad_type", "cta_url",
               "cta_text", "cta_domain", "status"}

\* C17: every record pushed with status SUCCESS has every key of the output
\* schema, holding a value or null, and is_sponsored is a boolean.
C17_SuccessRecordHasSchemaKeys ==
    \A j \in 1..Len(pushed) :
        pushed[j].rec.status = Str("SUCCESS") =>
            /\ \A k \in SchemaKeys : pushed[j].rec[k] /= Undef
            /\ pushed[j].rec.is_sponsored \in {JsTrue, JsFalse}

\* C17 in the Cheerio revision, for every key but cta_domain.
SchemaKeysCheerioButDomain ==
    \A j \in 1..Len(pushed) :
        (revision = "cheerio" /\ pushed[j].rec.status = Str("SUCCESS")) =>
            /\ \A k \in SchemaKeys \ {"cta_domain"} : pushed[j].rec[k] /= Undef
            /\ pushed[j].rec.is_sponsored \in {JsTrue, JsFalse}
            /\ pushed[j].rec.cta_domain = Undef <=> Falsy(pushed[j].rec.cta_url)

\* C18: the ad_type of every record that has one is image, video or unknown.
C18_AdTypeDocumentedValues ==
    \A x \in Started :
        At(x).res.ad_type /= Undef =>
            At(x).res.ad_type \in {Str("image"), Str("video"), Str("unknown")}

\* The values ad_type takes: the three above and video_thumbnail, the last one
\* exactly when the creative is the first video's poster.
AdTypeValuesOfTheCode ==
    \A x \in Started :
        At(x).res.ad_type /= Undef =>
            /\ At(x).res.ad_type \in
                  {Str("image"), Str("video"), Str("unknown"), Str("video_thumbnail")}
            /\ At(x).res.ad_type = Str("video_thumbnail") =>
                  At(x).res.creative_url = FirstAttr(Doc(x), Select(Doc(x), "video"), "poster")

\* Two invocations of the handler on one URL, both run to the end of the try
\* block with no fault: the page content is the same for both.
CleanPairs ==
    {p \in Started \X Started :
        /\ p[1][1] = p[2][1] /\ p[1][2] < p[2][2]
        /\ At(p[1]).pc = "done" /\ At(p[1]).thrown = Undef
        /\ At(p[2]).pc = "done" /\ At(p[2]).thrown = Undef}

\* C19: two invocations of the handler on the same URL and the same page
\* content yield equal records, crawled_at included.
C19_HandlerIdempotent ==
    \A p \in CleanPairs : At(p[1]).res = At(p[2]).res

\* C19 for every field but crawled_at.
IdempotentButCrawledAt ==
    \A p \in CleanPairs :
        \A k \in Keys \ {"crawled_at"} : At(p[1]).res[k] = At(p[2]).res[k]

\* The calls of pushData an invocation of the handler has made.
CallsOf(x) == {j \in 1..Len(pushed) : pushed[j].url = x[1] /\ pushed[j].attempt = x[2]}

\* C20: an invocation of the handler hands its record to the sink at most
\* once, and the record it handed over is the record as it stands afterwards:
\* its status is not assigned again, also when the sink call raised a fault.
C20_FinalizedOnce ==
    \A x \in Started :
        /\ Cardinality(CallsOf(x)) <= 1
        /\ \A j \in CallsOf(x) : pushed[j].rec = At(x).res

\* C20 for the invocations whose pushData in the try block did not raise a fault.
FinalizedOnceUnlessSinkFault ==
    \A x \in Started :
        (\A j \in CallsOf(x) : ~(pushed[j].via = "try" /\ ~pushed[j].ok)) =>
            /\ Cardinality(CallsOf(x)) <= 1
            /\ \A j \in CallsOf(x) : pushed[j].rec = At(x).res

\* The value of the last payload of a key in source order, as it stands in the
\* page source (Undef when the page has none).
LastPayload(doc, key) ==
    LET idx == {j \in 1..Len(doc.raw) : doc.raw[j].key = key}
    IN IF idx = {} THEN Undef
       ELSE doc.raw[CHOOSE j \in idx : \A k \in idx : k <= j].val
\* a string with every backslash taken out
WithoutBackslashes(v) ==
    LET F[j \in 0..Len(v)] ==
          IF j = 0 THEN <<>>
          ELSE IF v[j] = "\\" THEN F[j - 1] ELSE Append(F[j - 1], v[j])
    IN F[Len(v)]
\* The value a payload tier yields (Undef: the page has no payload of the key).
PayloadValue(doc, key) ==
    IF LastPayload(doc, key) = Undef THEN Undef
    ELSE WithoutBackslashes(LastPayload(doc, key))

\* C21: in the Cheerio revision, the value a payload tier puts into the record
\* is that of the key's last occurrence in source order with every backslash
\* removed: resized_image_url whenever the page has one, video_hd_url when no
\* creative was found before it, link_url whenever the page has one.
C21_LastPayloadUnescaped ==
    \A x \in ExtractedCheerio :
        LET image == PayloadValue(Doc(x), "resized_image_url")
            video == PayloadValue(Doc(x), "video_hd_url")
            link == PayloadValue(Doc(x), "link_url")
        IN /\ Truthy(image) =>
                At(x).res.creative_url = image /\ At(x).res.ad_type = Str("image")
           /\ (/\ Truthy(video) /\ Falsy(image)
               /\ \A k \in 1..3 : ~TierMatches(k, Doc(x))) =>
                At(x).res.creative_url = video /\ At(x).res.ad_type = Str("video")
           /\ Truthy(link) => At(x).res.cta_url = link

\* C21 witness: a record in the dataset from a page with two resized_image_url
\* payloads of different values, the last one escaped: creative_url is the last
\* one's value without its backslashes.
C21_Witness ==
    \E x \in ExtractedCheerio :
        LET m == RawMatches(Doc(x), "resized_image_url")
        IN /\ At(x).pc = "done"
           /\ Len(m) = 2 /\ m[1] /= m[2]
           /\ \E i \in 1..Len(m[2]) : IsBackslash(m[2][i])
           /\ \E j \in 1..Len(Dataset) :
                 /\ Dataset[j] = At(x).res
                 /\ Dataset[j].creative_url = <<"https", ":", "/", "/", "fbcdn", "/", "imgA">>

\* C22: in every record pushed with status SUCCESS, by any of the three
\* revisions, creative_url is null exactly when ad_type is unknown, and is
\* otherwise a non-empty URL with ad_type image, video or video_thumbnail.
C22_CreativeNullIffUnknown ==
    \A j \in 1..Len(pushed) :
        pushed[j].rec.status = Str("SUCCESS") =>
            /\ pushed[j].rec.creative_url = Null <=> pushed[j].rec.ad_type = Str("unknown")
            /\ pushed[j].rec.creative_url /= Null =>
                  /\ Truthy(pushed[j].rec.creative_url)
                  /\ pushed[j].rec.ad_type \in
                        {Str("image"), Str("video"), Str("video_thumbnail")}

\* C22 witness: a SUCCESS record in the dataset with null creative_url and
\* ad_type unknown, from a page whose only creative is a resized_image_url
\* payload that is empty once unescaped.
C22_Witness ==
    \E x \in Extracted :
        /\ At(x).pc = "done" /\ revision = "cheerio"
        /\ Len(RawMatches(Doc(x), "resized_image_url")) > 0
        /\ \E j \in 1..Len(Dataset) :
              /\ Dataset[j] = At(x).res
              /\ Dataset[j].status = Str("SUCCESS")
              /\ Dataset[j].creative_url = Null
              /\ Dataset[j].ad_type = Str("unknown")

\* C23: the ad_id of a FAILED record is the ad_id the request handler writes
\* for the same URL, and is absent when the handler's is null.
C23_FailedAdIdAsHandler ==
    \A j \in 1..Len(pushed) :
        pushed[j].via = "failed" =>
            LET handlerId == AdIdMatch(Url(pushed[j].url))
            IN IF handlerId = Null THEN Falsy(pushed[j].rec.ad_id)
               ELSE pushed[j].rec.ad_id = handlerId

\* C23 for the URLs that have no digits after a parameter whose name ends in
\* id other than id itself.
FailedAdIdAsHandlerPlainUrls ==
    \A j \in 1..Len(pushed) :
        (pushed[j].via = "failed" /\ ~Includes(Url(pushed[j].url), "video_id=")) =>
            LET handlerId == AdIdMatch(Url(pushed[j].url))
            IN IF handlerId = Null THEN Falsy(pushed[j].rec.ad_id)
               ELSE pushed[j].rec.ad_id = handlerId

\* C24: whenever ad_text is set and not null in a pushed record, it has more
\* than 20 characters.
C24_AdTextLongerThanMinimum ==
    \A j \in 1..Len(pushed) :
        Truthy(pushed[j].rec.ad_text) => StrLen(pushed[j].rec.ad_text) > MinAdTextLength

\* What holds instead: an ad_text is the trimmed text of a candidate whose
\* text, white space included, has more than 20 characters.
AdTextFromLongCandidate ==
    \A x \in Extracted :
        Truthy(At(x).res.ad_text) =>
            \E i \in LongCandidates(Doc(x)) : At(x).res.ad_text = Trim(Doc(x).text.adTexts[i])

\* C9 in the Cheerio revision alone.
CtaPriorityOrderCheerio == revision = "cheerio" => C9_CtaPriorityOrder

====
